---- MODULE Spec2Model ----
(***************************************************************************)
(* Semi-classical subset state preparation: the Grover-Rudolph rotation    *)
(* tree over the canonical indices 0..card-1, and the permutation of the   *)
(* canonical basis states onto a target subset by per-cycle gate           *)
(* fragments with one ancilla.                                             *)
(*                                                                         *)
(* Conventions of the model:                                               *)
(*  - a Python str of '0'/'1' is a sequence of the integers 0 and 1, in    *)
(*    the order of the characters;                                         *)
(*  - Python lists are sequences; Python indices are kept 0-based in the   *)
(*    variables and shifted by one where a sequence is read;               *)
(*  - a qubit is its position in main's list `qubits`: x_i is i, the       *)
(*    ancilla is num_qubits;                                               *)
(*  - an angle 2*acos(sqrt(N0/(N0+N1))) is kept as the pair <<N0, N1>>, a  *)
(*    probability as a reduced fraction <<numerator, denominator>>.        *)
(***************************************************************************)
EXTENDS Integers, Sequences, FiniteSets, TLC

VARIABLES
    num_qubits,       \* main's num_qubits / gate's n / generate_circuit's num_qbs
    cardinality,      \* main's cardinality / the classes' card
    target_subset,    \* main's target_subset
    pc,               \* position in the running code
    ret,              \* where permutation_cycles returns to
    err,              \* the exception raised ("" when none)
    i, j, used, cycle, cycles,   \* locals of permutation_cycles (cycle: also the gate's cycle)
    binary_sequence,  \* get_angles: [''] + generate_prefix_binary_sequence()
    angle_lst,        \* get_angles: the angles, as <<N0, N1>>
    circuit,          \* the operations emitted so far
    opi,              \* simulation: number of operations of circuit applied
    basis,            \* simulation: the register (bits of x_0..x_{n-1}, ancilla) of each tracked basis state
    prob              \* simulation: probability of each data value, as a fraction

vars == <<num_qubits, cardinality, target_subset, pc, ret, err, i, j, used, cycle,
          cycles, binary_sequence, angle_lst, circuit, opi, basis, prob>>

permVars == <<i, j, used, cycle, cycles>>
grVars == <<binary_sequence, angle_lst, prob>>
simVars == <<circuit, opi, basis>>
inputVars == <<num_qubits, cardinality, target_subset, ret>>

(***************************************************************************)
(* Bounds of the model.                                                    *)
(***************************************************************************)
\* main: number of qubits, and length of target_subset
MainMaxQubits == 2
MainMaxLen == 3
\* permutation_cycles followed by the cycle fragments
CycMaxQubits == 2
CycMaxCard == 4
\* one permutation_cycle_gate on its own
GateMaxQubits == 2
GateMaxLen == 4
\* Grover-Rudolph angles and circuit
GRMaxCard == 12
GRMaxQubits == 5

(***************************************************************************)
(* Python built-ins used by the code.                                      *)
(***************************************************************************)
\* seq[k] with Python's negative indexing
PyIndex(seq, k) == IF k >= 0 THEN seq[k + 1] ELSE seq[Len(seq) + k + 1]

\* the 1-based place PyIndex reads
PyPlace(seq, k) == IF k >= 0 THEN k + 1 ELSE Len(seq) + k + 1

RECURSIVE Bin(_)
\* bin(x)[2:] for x >= 0
Bin(x) == IF x < 2 THEN <<x>> ELSE Append(Bin(x \div 2), x % 2)

\* s.zfill(w): left-padded with zeros to width w, never truncated
Zfill(s, w) == IF Len(s) >= w THEN s ELSE [k \in 1..(w - Len(s)) |-> 0] \o s

\* f"{x:0{w}b}"
FormatBin(x, w) == Zfill(Bin(x), w)

\* s[::-1]
Reverse(s) == [k \in 1..Len(s) |-> s[Len(s) + 1 - k]]

\* s[:l]
Take(s, l) == SubSeq(s, 1, IF l < Len(s) THEN l ELSE Len(s))

\* s[l:]
Drop(s, l) == SubSeq(s, l + 1, Len(s))

RECURSIVE FromBits(_)
\* int(s, 2)
FromBits(s) == IF Len(s) = 0 THEN 0 ELSE 2 * FromBits(SubSeq(s, 1, Len(s) - 1)) + s[Len(s)]

\* max(seq) of a non-empty list
Max(seq) == CHOOSE m \in {seq[k] : k \in 1..Len(seq)} : \A k \in 1..Len(seq) : seq[k] <= m

\* math.ceil(log2(c)) for c >= 1
CeilLog2(c) == CHOOSE k \in 0..c : 2^k >= c /\ \A m \in 0..(k - 1) : 2^m < c

Range(seq) == {seq[k] : k \in 1..Len(seq)}

Distinct(seq) == \A a, b \in 1..Len(seq) : a # b => seq[a] # seq[b]

\* the injective sequences of length len over S
InjSeqs(S, len) == {s \in [1..len -> S] : Distinct(s)}

(***************************************************************************)
(* SubsetPermutation.permutation_cycles, one loop iteration per step.      *)
(***************************************************************************)
\* The list `cycle` grows by one element per iteration of the while loop; in a
\* traversal that never leaves [0, d) it grows without bound.  A traversal that
\* ends visits only distinct indices, so its list has at most d + 1 elements;
\* the model keeps the first CycleCap elements of the list.
CycleCap == Len(target_subset) + 2

\* cycle.append(x)
CycleAppend(c, x) == IF Len(c) < CycleCap THEN Append(c, x) ELSE c

\* d = len(target_subset); used = [False] * d; cycles = []; for i in range(d):
PermutationCyclesEnter ==
    /\ pc = "cycles_enter"
    /\ used' = [k \in 1..Len(target_subset) |-> FALSE]
    /\ cycles' = <<>>
    /\ i' = 0
    /\ pc' = "cycles_for"
    /\ UNCHANGED <<j, cycle, err>>
    /\ UNCHANGED <<inputVars, grVars, simVars>>

\* the loop bound one too low: the walk stops at the last index
WhileConditionShort(jj, d) == jj < d - 1

\* while j < d:
WhileCondition(jj, d) == jj < d

\* one iteration of `for i in range(d)` up to the while loop, or the return
PermutationCyclesFor ==
    /\ pc = "cycles_for"
    /\ LET d == Len(target_subset) IN
       IF i >= d
       THEN /\ pc' = ret
            /\ UNCHANGED <<i, j, used, cycle, cycles>>
       ELSE IF PyIndex(used, i) \/ PyIndex(target_subset, i) = i
       THEN /\ i' = i + 1
            /\ UNCHANGED <<pc, j, used, cycle, cycles>>
       ELSE /\ cycle' = <<i, PyIndex(target_subset, i)>>
            /\ j' = PyIndex(target_subset, i)
            /\ pc' = "cycles_while"
            /\ UNCHANGED <<i, used, cycles>>
    /\ UNCHANGED err
    /\ UNCHANGED <<inputVars, grVars, simVars>>

\* one iteration of `while j < d`, or its exit and cycles.append(cycle)
PermutationCyclesWhile ==
    /\ pc = "cycles_while"
    /\ IF WhileCondition(j, Len(target_subset))
       THEN /\ used' = [used EXCEPT ![PyPlace(used, j)] = TRUE]
            /\ j' = PyIndex(target_subset, j)
            /\ cycle' = CycleAppend(cycle, PyIndex(target_subset, j))
            /\ UNCHANGED <<pc, i, cycles>>
       ELSE /\ cycles' = Append(cycles, cycle)
            /\ i' = i + 1
            /\ pc' = "cycles_for"
            /\ UNCHANGED <<j, used, cycle>>
    /\ UNCHANGED err
    /\ UNCHANGED <<inputVars, grVars, simVars>>

(***************************************************************************)
(* permutation_cycle_gate and gray_code_gate.                              *)
(***************************************************************************)
\* an operation: gate name, control qubits with their values, target qubits, angle
Op(g, cs, cv, ts, a) ==
    [gate |-> g, controls |-> cs, control_values |-> cv, targets |-> ts, angle |-> a]

\* permutation_cycle_gate.__init__: all(0 <= x < 2**num_qubits for x in cycle)
CycleInRange(n, c) == \A k \in 1..Len(c) : 0 <= c[k] /\ c[k] < 2^n

\* mutant of GrayCodeVector: the bits of the second string, not the difference
GrayCodeVectorOfTarget(b1, b2) ==
    LET m == IF Len(b1) < Len(b2) THEN Len(b1) ELSE Len(b2)
    IN  [k \in 1..m |-> b2[k]]

\* gray_code_gate._decompose_: the positions where the two strings differ
\* (zip stops at the shorter string)
GrayCodeVector(b1, b2) ==
    LET m == IF Len(b1) < Len(b2) THEN Len(b1) ELSE Len(b2)
    IN  [k \in 1..m |-> IF b1[k] # b2[k] THEN 1 ELSE 0]

\* the X operations of gray_code_gate._decompose_(qubits), as the list of
\* qubits flipped
GrayCodeTargets(b1, b2, qubits) ==
    LET v == GrayCodeVector(b1, b2)
        F[k \in 0..Len(v)] ==
            IF k = 0 THEN <<>>
            ELSE IF v[k] = 1 THEN Append(F[k - 1], qubits[k]) ELSE F[k - 1]
    IN  F[Len(v)]

\* the marking MCX controlled on the bits of x_k least significant bit first
CycleStepOpsLsbControls(n, c, k, data_qubits, ancilla) ==
    LET l == Len(c)
        x_k == c[k + 1]
        x_kp1 == c[((k + 1) % l) + 1]
        bin_k == Zfill(Bin(x_k), n)
        bin_kp1 == Zfill(Bin(x_kp1), n)
    IN  << Op("MCX", data_qubits, Reverse(bin_k), <<ancilla>>, <<0, 0>>),
           Op("CGRAY", <<ancilla>>, <<1>>, GrayCodeTargets(bin_k, bin_kp1, data_qubits), <<0, 0>>) >>

\* the two operations of iteration k (0-based) of the loop of _decompose_
CycleStepOps(n, c, k, data_qubits, ancilla) ==
    LET l == Len(c)
        x_k == c[k + 1]
        x_kp1 == c[((k + 1) % l) + 1]
        bin_k == Zfill(Bin(x_k), n)
        bin_kp1 == Zfill(Bin(x_kp1), n)
    IN  << Op("MCX", data_qubits, bin_k, <<ancilla>>, <<0, 0>>),
           Op("CGRAY", <<ancilla>>, <<1>>, GrayCodeTargets(bin_k, bin_kp1, data_qubits), <<0, 0>>) >>

\* mutant of UncomputeOps: the ancilla is not uncomputed
UncomputeOpsMissing(n, c, data_qubits, ancilla) == <<>>

\* Step 3 of _decompose_: the final multi-controlled X on the pattern of x_0
UncomputeOps(n, c, data_qubits, ancilla) ==
    << Op("MCX", data_qubits, Zfill(Bin(c[1]), n), <<ancilla>>, <<0, 0>>) >>

\* permutation_cycle_gate._decompose_(qubits): the operations it yields
PermutationCycleDecompose(n, c, qubits) ==
    LET data_qubits == SubSeq(qubits, 1, n)
        ancilla == qubits[n + 1]
        F[k \in 0..Len(c)] ==
            IF k = 0 THEN <<>>
            ELSE F[k - 1] \o CycleStepOps(n, c, k - 1, data_qubits, ancilla)
    IN  F[Len(c)] \o UncomputeOps(n, c, data_qubits, ancilla)

\* main: ws_qubits = [x0..x{n-1}], qubits = ws_qubits + [ancilla]
WsQubits(n) == [k \in 1..n |-> k - 1]
Qubits(n) == Append(WsQubits(n), n)

(***************************************************************************)
(* What an operation does to a basis state (the simulator's semantics of   *)
(* a controlled flip).  A register is the bits of the qubits in the order  *)
(* of main's list `qubits`.                                                *)
(***************************************************************************)
ControlsHold(op, reg) ==
    \A k \in 1..Len(op.controls) : reg[op.controls[k] + 1] = op.control_values[k]

\* a controlled flip of every target qubit
ApplyFlip(op, reg) ==
    IF ControlsHold(op, reg)
    THEN [q \in 1..Len(reg) |-> IF (q - 1) \in Range(op.targets) THEN 1 - reg[q] ELSE reg[q]]
    ELSE reg

\* the register holding data value x with the ancilla at a
Register(n, x, a) == Append(Zfill(Bin(x), n), a)

DataOf(reg) == FromBits(SubSeq(reg, 1, Len(reg) - 1))
AncillaOf(reg) == reg[Len(reg)]

\* apply operation number opi + 1 of the circuit to every tracked basis state
SimulateOp ==
    /\ pc = "simulate"
    /\ IF opi < Len(circuit)
       THEN /\ basis' = [k \in DOMAIN basis |-> ApplyFlip(circuit[opi + 1], basis[k])]
            /\ opi' = opi + 1
            /\ UNCHANGED pc
       ELSE /\ pc' = "done"
            /\ UNCHANGED <<basis, opi>>
    /\ UNCHANGED <<circuit, err>>
    /\ UNCHANGED <<inputVars, permVars, grVars>>

(***************************************************************************)
(* A cycle gate on its own: permutation_circuits.py's example, for any     *)
(* cycle of distinct integers.                                             *)
(***************************************************************************)
\* gate = permutation_cycle_gate(n, cycle);
\* circuit = Circuit(decompose_once_with_qubits(gate, data_qubits + [ancilla]))
GateExample ==
    /\ pc = "gate_new"
    /\ IF ~CycleInRange(num_qubits, cycle)
       THEN /\ pc' = "raised"
            /\ err' = "cycle_range"
            /\ UNCHANGED circuit
       ELSE /\ circuit' = PermutationCycleDecompose(num_qubits, cycle, Qubits(num_qubits))
            /\ pc' = "simulate"
            /\ UNCHANGED err
    /\ UNCHANGED <<opi, basis>>
    /\ UNCHANGED <<inputVars, permVars, grVars>>

\* every data value of the register, ancilla 0
AllBasis(n) == [x \in 1..(2^n) |-> Register(n, x - 1, 0)]

NoAngles == <<>>
NoProb == <<>>

InitGate ==
    /\ num_qubits \in 1..GateMaxQubits
    /\ \E len \in 1..GateMaxLen : cycle \in InjSeqs(0..(2^num_qubits), len)
    /\ cardinality = 0
    /\ target_subset = <<>>
    /\ pc = "gate_new"
    /\ ret = ""
    /\ err = ""
    /\ i = 0 /\ j = 0 /\ used = <<>> /\ cycles = <<>>
    /\ binary_sequence = <<>> /\ angle_lst = NoAngles /\ prob = NoProb
    /\ circuit = <<>>
    /\ opi = 0
    /\ basis = AllBasis(num_qubits)

NextGate == GateExample \/ SimulateOp

SpecGate == InitGate /\ [][NextGate]_vars

(***************************************************************************)
(* GroverRudolphAngles.                                                    *)
(***************************************************************************)
\* __init__ of GroverRudolphAngles, GroverRudolphCircuit and gr_gate: card <= 2 raises
\* the check with the bound one too low: card = 2 is let through
CardBelowTwo(card) == card < 2

CardTooSmall(card) == card <= 2

RECURSIVE PrefixLoopLsbFirst(_, _, _, _)
\* the loops with every string written least significant bit first
PrefixLoopLsbFirst(num_to_generate, result_list, length, k) ==
    IF k = 0 /\ ~(Len(result_list) < num_to_generate)
    THEN result_list
    ELSE IF k >= 2^length
    THEN PrefixLoopLsbFirst(num_to_generate, result_list, length + 1, 0)
    ELSE LET binary_string == Reverse(Zfill(Bin(k), length))
             appended == Append(result_list, binary_string)
         IN  IF Len(appended) = num_to_generate
             THEN appended
             ELSE PrefixLoopLsbFirst(num_to_generate, appended, length, k + 1)

RECURSIVE PrefixLoop(_, _, _, _)
\* the loops of generate_prefix_binary_sequence: the while loop over length,
\* the for loop over k in range(2 ** length), with the early return
PrefixLoop(num_to_generate, result_list, length, k) ==
    IF k = 0 /\ ~(Len(result_list) < num_to_generate)
    THEN result_list
    ELSE IF k >= 2^length
    THEN PrefixLoop(num_to_generate, result_list, length + 1, 0)
    ELSE LET binary_string == Zfill(Bin(k), length)
             appended == Append(result_list, binary_string)
         IN  IF Len(appended) = num_to_generate
             THEN appended
             ELSE PrefixLoop(num_to_generate, appended, length, k + 1)

\* mutant of NumToGenerate: one prefix too many
NumToGenerateOffByOne(card) == card - 1

\* num_to_generate = self.card - 2
NumToGenerate(card) == card - 2

\* generate_prefix_binary_sequence()
GeneratePrefixBinarySequence(card) ==
    IF card <= 2 THEN <<>> ELSE PrefixLoop(NumToGenerate(card), <<>>, 1, 0)

\* mutant of RevBinVals: the strings are not reversed
BinValsNotReversed(card, n) == [v \in 1..card |-> FormatBin(v - 1, n)]

\* rev_bin_vals = [i[::-1] for i in bin_vals]
RevBinVals(card, n) == [v \in 1..card |-> Reverse(FormatBin(v - 1, n))]

\* partition_counter(prefix): [N0, N1, err]; err is "IndexError" when a
\* truncated string is empty (i[1][0] on an empty string)
PartitionCounter(card, prefix) ==
    LET n == CeilLog2(card)
        l == Len(prefix)
        rev_bin_vals == RevBinVals(card, n)
        cond == {v \in 1..card : Take(rev_bin_vals[v], l) = prefix}
        trunc(v) == Drop(rev_bin_vals[v], l)
    IN  IF \E v \in cond : Len(trunc(v)) = 0
        THEN [N0 |-> 0, N1 |-> 0, err |-> "IndexError"]
        ELSE [N0 |-> Cardinality({v \in cond : trunc(v)[1] = 0}),
              N1 |-> Cardinality({v \in cond : trunc(v)[1] = 1}),
              err |-> ""]

\* partition_angle raises when N0 + N1 == 0
PartitionAngleRaises(N0, N1) == N0 + N1 = 0

\* binary_sequence = [''] + self.generate_prefix_binary_sequence()
BinarySequence(card) == <<<<>>>> \o GeneratePrefixBinarySequence(card)

\* get_angles(): [angles, err]
GetAngles(card) ==
    LET seq == BinarySequence(card)
        counts == [k \in 1..Len(seq) |-> PartitionCounter(card, seq[k])]
    IN  IF \E k \in 1..Len(seq) : counts[k].err # ""
        THEN [angles |-> <<>>, err |-> "IndexError"]
        ELSE IF \E k \in 1..Len(seq) : PartitionAngleRaises(counts[k].N0, counts[k].N1)
        THEN [angles |-> <<>>, err |-> "degenerate_partition"]
        ELSE [angles |-> [k \in 1..Len(seq) |-> <<counts[k].N0, counts[k].N1>>], err |-> ""]

(***************************************************************************)
(* GroverRudolphCircuit and gr_gate.                                       *)
(***************************************************************************)
\* control_tag with the position in the group counted from 1
ControlTagPositionFromOne(c) ==
    LET steps == c - 1
        l == CeilLog2(c) - 1
        R == steps - 2^l + 1
        bin_sig == FormatBin(R, l)
    IN  [l |-> l, R |-> R, bin_sig |-> bin_sig, ctrl_sig |-> bin_sig]

\* control_tag(c)
ControlTag(c) ==
    LET steps == c - 1
        l == CeilLog2(c) - 1
        R == steps - 2^l
        bin_sig == FormatBin(R, l)
    IN  [l |-> l, R |-> R, bin_sig |-> bin_sig, ctrl_sig |-> bin_sig]

\* control_tag_list(): the tag of step c is at index c - 3
ControlTagList(card) == [k \in 1..(card - 2) |-> ControlTag(k + 2)]

\* generate_circuit: num_qbs <= 0 or num_qbs < math.ceil(np.log2(self.card))
TooFewQubits(num_qbs, card) == num_qbs <= 0 \/ num_qbs < CeilLog2(card)

\* the qubit list left in the order x0..x{n-1}
QubitsNotReversed(n) == WsQubits(n)

\* qubits = [x0..x{n-1}][::-1]
ReversedQubits(n) == Reverse(WsQubits(n))

\* the controlled rotation appended at `step`
StepRotation(step, tags, angles, qubits) ==
    LET shift_step == step - 3
        group == tags[shift_step + 1].l
        ctrl_sig == tags[shift_step + 1].ctrl_sig
        ctrl_qb_group == Take(qubits, group)
        target_qb == qubits[group + 1]
        angle == angles[(step - 2) + 1]
    IN  Op("CRy", ctrl_qb_group, ctrl_sig, <<target_qb>>, angle)

\* generate_circuit(num_qbs): [ops, err]
GenerateCircuit(card, num_qbs) ==
    IF CardTooSmall(card) THEN [ops |-> <<>>, err |-> "card"]
    ELSE IF TooFewQubits(num_qbs, card) THEN [ops |-> <<>>, err |-> "too_few_qubits"]
    ELSE LET got == GetAngles(card)
             tags == ControlTagList(card)
             qubits == ReversedQubits(num_qbs)
             first == Op("Ry", <<>>, <<>>, <<qubits[1]>>, got.angles[1])
         IN  IF got.err # "" THEN [ops |-> <<>>, err |-> got.err]
             ELSE [ops |-> <<first>> \o
                           [k \in 1..(card - 2) |-> StepRotation(k + 2, tags, got.angles, qubits)],
                   err |-> ""]

\* gr_gate.__init__: the error it raises, "" when none
GrGateNew(n, card) ==
    IF CardTooSmall(card) THEN "card"
    ELSE IF TooFewQubits(n, card) THEN "too_few_qubits"
    ELSE ""

\* gr_gate._decompose_(qubits): [ops, err]
GrGateDecompose(n, card, qubits) ==
    IF Len(qubits) # n THEN [ops |-> <<>>, err |-> "decompose_qubits"]
    ELSE GenerateCircuit(card, n)

(***************************************************************************)
(* What a rotation does to the distribution over the data values.  Every   *)
(* amplitude the circuit produces is a non-negative real, so a rotation    *)
(* Ry(2*acos(sqrt(N0/(N0+N1)))) of a target qubit holding 0 leaves the     *)
(* fraction N0/(N0+N1) of the probability on 0 and moves the rest to 1.    *)
(***************************************************************************)
RECURSIVE Gcd(_, _)
Gcd(a, b) == IF b = 0 THEN a ELSE Gcd(b, a % b)

\* the reduced fraction a/b, b > 0
Frac(a, b) == LET g == Gcd(a, b) IN <<a \div g, b \div g>>

FracMul(p, a, b) == Frac(p[1] * a, p[2] * b)

\* bit of qubit q (x_q) in data value v of an n-qubit register: x_0 is the
\* most significant bit
BitOf(n, v, q) == (v \div 2^(n - 1 - q)) % 2

\* the controls of the operation hold on data value v
RotationControlsHold(n, op, v) ==
    \A k \in 1..Len(op.controls) : BitOf(n, v, op.controls[k]) = op.control_values[k]

\* a rotation meets probability on target value 1 under its controls: the
\* probabilities alone do not decide its outcome
RotationInterferes(n, op, P) ==
    \E v \in DOMAIN P :
        /\ RotationControlsHold(n, op, v)
        /\ BitOf(n, v, op.targets[1]) = 1
        /\ P[v][1] # 0

\* the distribution after the rotation
ApplyRotation(n, op, P) ==
    LET t == op.targets[1]
        N0 == op.angle[1]
        N1 == op.angle[2]
        w == 2^(n - 1 - t)
    IN  [v \in DOMAIN P |->
            IF ~RotationControlsHold(n, op, v) THEN P[v]
            ELSE IF BitOf(n, v, t) = 0 THEN FracMul(P[v], N0, N0 + N1)
            ELSE FracMul(P[v - w], N1, N0 + N1)]

\* the all-zero state
ZeroState(n) == [v \in 0..(2^n - 1) |-> IF v = 0 THEN <<1, 1>> ELSE <<0, 1>>]

(***************************************************************************)
(* The Grover-Rudolph classes on their own: the examples of                *)
(* grover_rudolph_angles.py and grover_rudolph_circuit.py, for any card    *)
(* and number of qubits, and the simulation of the circuit.                *)
(***************************************************************************)
\* angles_generator = GroverRudolphAngles(card)
GRAnglesNew ==
    /\ pc = "angles_new"
    /\ IF CardTooSmall(cardinality)
       THEN pc' = "raised" /\ err' = "card"
       ELSE pc' = "get_angles" /\ UNCHANGED err
    /\ UNCHANGED <<inputVars, permVars, grVars, simVars>>

\* binary_sequence = [''] + generate_prefix_binary_sequence(); get_angles()
GRGetAngles ==
    /\ pc = "get_angles"
    /\ LET got == GetAngles(cardinality) IN
       IF got.err # ""
       THEN /\ pc' = "raised" /\ err' = got.err
            /\ UNCHANGED <<binary_sequence, angle_lst>>
       ELSE /\ binary_sequence' = BinarySequence(cardinality)
            /\ angle_lst' = got.angles
            /\ pc' = "circuit_new"
            /\ UNCHANGED err
    /\ UNCHANGED prob
    /\ UNCHANGED <<inputVars, permVars, simVars>>

\* gr_circuit = GroverRudolphCircuit(card=c)
GRCircuitNew ==
    /\ pc = "circuit_new"
    /\ IF CardTooSmall(cardinality)
       THEN pc' = "raised" /\ err' = "card"
       ELSE pc' = "generate_circuit" /\ UNCHANGED err
    /\ UNCHANGED <<inputVars, permVars, grVars, simVars>>

\* circuit = gr_circuit.generate_circuit(num_qbs=n)
GRGenerateCircuit ==
    /\ pc = "generate_circuit"
    /\ LET got == GenerateCircuit(cardinality, num_qubits) IN
       IF got.err # ""
       THEN /\ pc' = "raised" /\ err' = got.err
            /\ UNCHANGED <<circuit, prob>>
       ELSE /\ circuit' = got.ops
            /\ prob' = ZeroState(num_qubits)
            /\ pc' = "rotate"
            /\ UNCHANGED err
    /\ UNCHANGED <<opi, basis, binary_sequence, angle_lst>>
    /\ UNCHANGED <<inputVars, permVars>>

\* apply rotation number opi + 1 of the circuit to the distribution
SimulateRotation ==
    /\ pc = "rotate"
    /\ IF opi >= Len(circuit)
       THEN /\ pc' = "done"
            /\ UNCHANGED <<prob, opi, err>>
       ELSE IF RotationInterferes(num_qubits, circuit[opi + 1], prob)
       THEN /\ pc' = "raised" /\ err' = "interference"
            /\ UNCHANGED <<prob, opi>>
       ELSE /\ prob' = ApplyRotation(num_qubits, circuit[opi + 1], prob)
            /\ opi' = opi + 1
            /\ UNCHANGED <<pc, err>>
    /\ UNCHANGED <<circuit, basis, binary_sequence, angle_lst>>
    /\ UNCHANGED <<inputVars, permVars>>

InitGR ==
    /\ cardinality \in 0..GRMaxCard
    /\ num_qubits \in 0..GRMaxQubits
    /\ target_subset = <<>>
    /\ pc = "angles_new"
    /\ ret = ""
    /\ err = ""
    /\ i = 0 /\ j = 0 /\ used = <<>> /\ cycle = <<>> /\ cycles = <<>>
    /\ binary_sequence = <<>> /\ angle_lst = NoAngles /\ prob = NoProb
    /\ circuit = <<>>
    /\ opi = 0
    /\ basis = <<>>

NextGR == GRAnglesNew \/ GRGetAngles \/ GRCircuitNew \/ GRGenerateCircuit \/ SimulateRotation

SpecGR == InitGR /\ [][NextGR]_vars

(***************************************************************************)
(* main.                                                                   *)
(***************************************************************************)
\* the example run of main.py: num_qubits = 5, cardinality = 6
ReferenceQubits == 5
ReferenceCardinality == 6

\* SubsetGenerator.generate_subset(): [1 << i for i in range(n)], [0] for n = 0
GenerateSubset(n) == IF n = 0 THEN <<0>> ELSE [k \in 1..n |-> 2^(k - 1)]

\* the subset of the documented scenario for that run, [1,2,4,8,16,0]: the
\* generated subset (five elements) with 0 as the sixth element
ReferenceSubset == Append(GenerateSubset(ReferenceQubits), 0)

\* main's second check: max(target_subset) > 2**num_qubits
ExceedsRange(T, n) == Max(T) > 2^n

\* lines 22-27: the error checks ("" when they pass); every element is an int
MainChecks(n, card, T) ==
    IF Len(T) # card THEN "length"
    ELSE IF ExceedsRange(T, n) THEN "range"
    ELSE ""

\* main, lines 22-37: the checks, gr_subset, SubsetPermutation and the mapping
\* (gr_subset has the length of target_subset, so subset_element_matching
\* does not raise)
MainValidate ==
    /\ pc = "main"
    /\ LET e == MainChecks(num_qubits, cardinality, target_subset) IN
       IF e # ""
       THEN pc' = "raised" /\ err' = e
       ELSE pc' = "cycles_enter" /\ UNCHANGED err
    /\ UNCHANGED <<inputVars, permVars, grVars, simVars>>

\* main, lines 46-47: GroverRudolphAngles(card=cardinality).get_angles()
MainAngles ==
    /\ pc = "main_angles"
    /\ LET got == GetAngles(cardinality) IN
       IF CardTooSmall(cardinality)
       THEN /\ pc' = "raised" /\ err' = "card"
            /\ UNCHANGED <<binary_sequence, angle_lst>>
       ELSE IF got.err # ""
       THEN /\ pc' = "raised" /\ err' = got.err
            /\ UNCHANGED <<binary_sequence, angle_lst>>
       ELSE /\ binary_sequence' = BinarySequence(cardinality)
            /\ angle_lst' = got.angles
            /\ pc' = "main_gr_gate"
            /\ UNCHANGED err
    /\ UNCHANGED prob
    /\ UNCHANGED <<inputVars, permVars, simVars>>

\* main, lines 51-64: the qubits, gr_gate(num_qubits, cardinality) and
\* gr_unitary_gate.on(*ws_qubits), which takes num_qubits qubits
MainGrGate ==
    /\ pc = "main_gr_gate"
    /\ LET e == GrGateNew(num_qubits, cardinality) IN
       IF e # ""
       THEN pc' = "raised" /\ err' = e
       ELSE pc' = "main_decompose" /\ UNCHANGED err
    /\ UNCHANGED <<inputVars, permVars, grVars, simVars>>

\* the qubit list main passes to decompose_once_with_qubits on line 66
MainDecomposeQubits(n) == Qubits(n)

\* main, lines 66-68: circuit = Circuit(decompose_once_with_qubits(gr_unitary_gate, qubits))
MainDecompose ==
    /\ pc = "main_decompose"
    /\ LET got == GrGateDecompose(num_qubits, cardinality, MainDecomposeQubits(num_qubits)) IN
       IF got.err # ""
       THEN /\ pc' = "raised" /\ err' = got.err
            /\ UNCHANGED circuit
       ELSE /\ circuit' = got.ops
            /\ pc' = "perm_gates"
            /\ UNCHANGED err
    /\ UNCHANGED <<opi, basis>>
    /\ UNCHANGED <<inputVars, permVars, grVars>>

\* the operations of the cycle gates of cs[1..k], in order
CycleFragments(n, cs, k) ==
    LET F[m \in 0..k] ==
            IF m = 0 THEN <<>>
            ELSE F[m - 1] \o PermutationCycleDecompose(n, cs[m], Qubits(n))
    IN  F[k]

\* main, lines 75-82: one permutation_cycle_gate per cycle, appended in order
\* (the circuit holds the operations each gate decomposes into)
MainCycleGates ==
    /\ pc = "perm_gates"
    /\ IF \E k \in 1..Len(cycles) : ~CycleInRange(num_qubits, cycles[k])
       THEN /\ pc' = "raised" /\ err' = "cycle_range"
            /\ UNCHANGED circuit
       ELSE /\ circuit' = circuit \o CycleFragments(num_qubits, cycles, Len(cycles))
            /\ pc' = "simulate"
            /\ UNCHANGED err
    /\ UNCHANGED <<opi, basis>>
    /\ UNCHANGED <<inputVars, permVars, grVars>>

\* the inputs of main within the bounds: any list of integers from -1 to
\* 2^num_qubits, any cardinality; and the example run, with the subset main.py
\* generates and with the subset of the documented scenario
MainInputs ==
    /\ \/ /\ num_qubits \in 1..MainMaxQubits
          /\ \E len \in 1..MainMaxLen : target_subset \in [1..len -> -1..(2^num_qubits)]
          /\ cardinality \in 1..MainMaxLen
       \/ /\ num_qubits = ReferenceQubits
          /\ target_subset \in {ReferenceSubset, GenerateSubset(ReferenceQubits)}
          /\ cardinality = ReferenceCardinality

Init ==
    /\ MainInputs
    /\ pc = "main"
    /\ ret = "main_angles"
    /\ err = ""
    /\ i = 0 /\ j = 0 /\ used = <<>> /\ cycle = <<>> /\ cycles = <<>>
    /\ binary_sequence = <<>> /\ angle_lst = NoAngles /\ prob = NoProb
    /\ circuit = <<>>
    /\ opi = 0
    /\ basis = <<>>

\* main raises in MainDecompose on every input that reaches it, so line 75
\* (MainCycleGates) is never reached from main's entry
Next ==
    \/ MainValidate
    \/ PermutationCyclesEnter
    \/ PermutationCyclesFor
    \/ PermutationCyclesWhile
    \/ MainAngles
    \/ MainGrGate
    \/ MainDecompose

Spec == Init /\ [][Next]_vars

(***************************************************************************)
(* The permutation stage on its own: the cycles of a target subset of      *)
(* distinct values in [0, 2^num_qubits), the cycle gates main builds from  *)
(* them (lines 75-77), applied to the canonical basis states.              *)
(***************************************************************************)
\* the canonical basis states 0..card-1, ancilla 0
CanonicalBasis(n, card) == [x \in 1..card |-> Register(n, x - 1, 0)]

CycInputs ==
    \/ /\ num_qubits \in 1..CycMaxQubits
       /\ \E len \in 1..CycMaxCard : target_subset \in InjSeqs(0..(2^num_qubits - 1), len)
    \/ /\ num_qubits = ReferenceQubits
       /\ target_subset = ReferenceSubset

InitCyc ==
    /\ CycInputs
    /\ cardinality = Len(target_subset)
    /\ pc = "cycles_enter"
    /\ ret = "perm_gates"
    /\ err = ""
    /\ i = 0 /\ j = 0 /\ used = <<>> /\ cycle = <<>> /\ cycles = <<>>
    /\ binary_sequence = <<>> /\ angle_lst = NoAngles /\ prob = NoProb
    /\ circuit = <<>>
    /\ opi = 0
    /\ basis = CanonicalBasis(num_qubits, cardinality)

NextCyc ==
    \/ PermutationCyclesEnter
    \/ PermutationCyclesFor
    \/ PermutationCyclesWhile
    \/ MainCycleGates
    \/ SimulateOp

SpecCyc == InitCyc /\ [][NextCyc]_vars

\* the interpreter runs the next statement whenever there is one
FairSpecCyc == SpecCyc /\ WF_vars(NextCyc)

(***************************************************************************)
(* The three Grover-Rudolph constructors, each called on its own with any  *)
(* card and number of qubits: GroverRudolphAngles(card),                   *)
(* GroverRudolphCircuit(card) followed by generate_circuit(num_qbs), and   *)
(* gr_gate(num_qubits, card) placed on its own num_qubits qubits.          *)
(***************************************************************************)
\* gr_unitary_gate = gr_gate(num_qubits=n, card=c)
GrGateConstruct ==
    /\ pc = "gr_gate_new"
    /\ LET e == GrGateNew(num_qubits, cardinality) IN
       IF e # ""
       THEN pc' = "raised" /\ err' = e
       ELSE pc' = "gr_gate_on" /\ UNCHANGED err
    /\ UNCHANGED <<inputVars, permVars, grVars, simVars>>

\* gr_unitary_gate.on(*ws_qubits): the gate decomposed over its own qubits
GrGateOn ==
    /\ pc = "gr_gate_on"
    /\ LET got == GrGateDecompose(num_qubits, cardinality, WsQubits(num_qubits)) IN
       IF got.err # ""
       THEN /\ pc' = "raised" /\ err' = got.err
            /\ UNCHANGED <<circuit, prob>>
       ELSE /\ circuit' = got.ops
            /\ prob' = ZeroState(num_qubits)
            /\ pc' = "rotate"
            /\ UNCHANGED err
    /\ UNCHANGED <<opi, basis, binary_sequence, angle_lst>>
    /\ UNCHANGED <<inputVars, permVars>>

\* the statement each run starts with: one of the three constructors
Constructors == {"angles_new", "circuit_new", "gr_gate_new"}

InitCtor ==
    /\ cardinality \in 0..GRMaxCard
    /\ num_qubits \in 0..GRMaxQubits
    /\ target_subset = <<>>
    /\ pc \in Constructors
    /\ ret = ""
    /\ err = ""
    /\ i = 0 /\ j = 0 /\ used = <<>> /\ cycle = <<>> /\ cycles = <<>>
    /\ binary_sequence = <<>> /\ angle_lst = NoAngles /\ prob = NoProb
    /\ circuit = <<>>
    /\ opi = 0
    /\ basis = <<>>

NextCtor ==
    \/ GRAnglesNew \/ GRGetAngles \/ GRCircuitNew \/ GRGenerateCircuit
    \/ GrGateConstruct \/ GrGateOn \/ SimulateRotation

SpecCtor == InitCtor /\ [][NextCtor]_vars

(***************************************************************************)
(* Properties.                                                             *)
(***************************************************************************)
\* permutation_cycles has returned to its caller
CyclesReturned == pc \in {"perm_gates", "simulate", "done"}

\* the number of places of the returned cycles that hold x
Occurrences(x) ==
    Cardinality({p \in (1..Len(cycles)) \X (1..(Len(target_subset) + 2)) :
                    p[2] <= Len(cycles[p[1]]) /\ cycles[p[1]][p[2]] = x})

\* C1 (SpecCyc): once every cycle fragment has been applied, the canonical
\* basis states 0..cardinality-1 (ancilla 0) have become exactly the basis
\* states of target_subset, each with ancilla 0.
C1_FragmentsYieldTarget ==
    pc = "done" =>
        Range(basis) = {Register(num_qubits, target_subset[k], 0) : k \in 1..Len(target_subset)}

\* C2 (SpecGR): after the last rotation of generate_circuit, every canonical
\* index 0..card-1 has probability 1/card and every other data value has
\* probability 0.
C2_UniformOverCanonical ==
    pc = "done" =>
        \A v \in DOMAIN prob :
            prob[v] = IF v < cardinality THEN Frac(1, cardinality) ELSE <<0, 1>>

\* the documented preconditions of main, with cardinality > 2 and enough qubits
MainPreconditions ==
    /\ Len(target_subset) = cardinality
    /\ Distinct(target_subset)
    /\ \A k \in 1..Len(target_subset) :
          0 <= target_subset[k] /\ target_subset[k] < 2^num_qubits
    /\ cardinality > 2
    /\ num_qubits >= CeilLog2(cardinality)

\* C3 (Spec): on an input that meets the preconditions, no step of main raises.
C3_MainDoesNotRaise == MainPreconditions => pc # "raised"

\* C4 (SpecGate): after the whole fragment of a cycle x_0..x_{l-1}, the basis
\* state (data = x_k, ancilla = 0) has become (data = x_{(k+1) mod l},
\* ancilla = 0), for every k.
C4_CycleShiftsEachElement ==
    pc = "done" =>
        \A k \in 1..Len(cycle) :
            LET reg == basis[cycle[k] + 1] IN
            /\ DataOf(reg) = cycle[(k % Len(cycle)) + 1]
            /\ AncillaOf(reg) = 0

\* a cycle of three elements has been run to its end, and its wraparound
\* step flipped two data bits at once
C4_Witness ==
    /\ pc = "done"
    /\ Len(cycle) = 3
    /\ opi = Len(circuit)
    /\ cycle[3] = 3 /\ cycle[1] = 0
    /\ DataOf(basis[cycle[3] + 1]) = 0

\* C5 (SpecCyc): when permutation_cycles has returned, every index i in
\* [0, d) is either a fixed point that is in no cycle, or is in exactly one
\* place of exactly one cycle.
C5_CyclesPartitionIndices ==
    CyclesReturned =>
        \A x \in 0..(Len(target_subset) - 1) :
            IF target_subset[x + 1] = x THEN Occurrences(x) = 0 ELSE Occurrences(x) = 1

\* C6 (FairSpecCyc): permutation_cycles terminates: it returns to its caller.
C6_PermutationCyclesTerminates == <>CyclesReturned

\* C7 as stated (SpecGate): the fragment of a cycle of length l has l + 1
\* operations.
C7_FragmentHasLPlusOneOps ==
    pc \in {"simulate", "done"} => Len(circuit) = Len(cycle) + 1

\* C7 as amended (SpecGate): the fragment of a cycle of length l has 2l + 1
\* operations: a marking MCX and a controlled Gray flip per element, then
\* the uncomputing MCX.
C7_FragmentHasTwoLPlusOneOps ==
    pc \in {"simulate", "done"} => Len(circuit) = 2 * Len(cycle) + 1

\* the fragment of a cycle of four elements has been built
C7_Witness == pc = "simulate" /\ Len(cycle) = 4 /\ Len(circuit) = 9 /\ opi = 0

\* get_angles has returned
AnglesReturned == pc \in {"circuit_new", "generate_circuit", "rotate", "done"}

\* C8 (SpecGR): binary_sequence is the empty prefix followed by card - 2
\* strings, the k-th of them (k = 1..card-2) being the string of length L and
\* value v with 2^L + v = k + 1 (increasing length, increasing value within a
\* length); there are card - 1 angles; for card = 5 the sequence is
\* ['', '0', '1', '00'].
C8_PrefixSequenceAndAngleCount ==
    AnglesReturned =>
        /\ Len(binary_sequence) = cardinality - 1
        /\ binary_sequence[1] = <<>>
        /\ \A k \in 1..(cardinality - 2) :
              LET s == binary_sequence[k + 1] IN
              Len(s) >= 1 /\ 2^Len(s) + FromBits(s) = k + 1
        /\ Len(angle_lst) = cardinality - 1
        /\ cardinality = 5 => binary_sequence = << <<>>, <<0>>, <<1>>, <<0, 0>> >>

\* card = 7: the strings of length 2 are cut off after '10'
C8_Witness ==
    /\ AnglesReturned
    /\ cardinality = 7
    /\ binary_sequence = << <<>>, <<0>>, <<1>>, <<0, 0>>, <<0, 1>>, <<1, 0>> >>
    /\ Len(angle_lst) = 6

\* the value of a prefix read least-significant bit first
LsbValue(p) == FromBits(Reverse(p))

\* C9 (SpecGR): for every prefix p of binary_sequence, the counts (N0, N1)
\* that get_angles took from partition_counter(p) add up to the number of
\* canonical indices in 0..card-1 whose low Len(p) bits, least significant
\* first, spell p; for the empty prefix they add up to card.
C9_PartitionCountsCoverPrefix ==
    AnglesReturned =>
        /\ \A k \in 1..Len(binary_sequence) :
              LET p == binary_sequence[k] IN
              angle_lst[k][1] + angle_lst[k][2] =
                  Cardinality({x \in 0..(cardinality - 1) : x % 2^Len(p) = LsbValue(p)})
        /\ angle_lst[1][1] + angle_lst[1][2] = cardinality

\* card = 6: prefix '01' is met by 2 alone (6 is out of range), N0 = 1, N1 = 0
C9_Witness ==
    /\ AnglesReturned
    /\ cardinality = 6
    /\ binary_sequence[5] = <<0, 1>>
    /\ angle_lst[5] = <<1, 0>>

\* C10 (Spec): a target_subset whose maximum is not below 2^num_qubits never
\* gets past main's checks: main is at its entry or has raised a validation
\* error.
C10_OutOfRangeRejected ==
    Max(target_subset) >= 2^num_qubits =>
        /\ pc \in {"main", "raised"}
        /\ pc = "raised" => err \in {"length", "range"}

\* C11: main rejects, with a validation error and before the cycle
\* decomposition is entered, every target_subset that holds a negative element
\* or a repeated element.
HasNegative(T) == \E k \in 1..Len(T) : T[k] < 0

C11_NegativeOrRepeatedRejected ==
    (HasNegative(target_subset) \/ ~Distinct(target_subset)) =>
        /\ pc \in {"main", "raised"}
        /\ pc = "raised" => err \in {"length", "range"}

\* C12: GroverRudolphAngles, GroverRudolphCircuit and gr_gate each raise at
\* construction when card <= 2, and not for card = 3; the construction of
\* gr_gate and generate_circuit raise when num_qubits < ceil(log2(card)); a
\* step that raises produces no angle list and no operation.
NothingProduced == UNCHANGED <<binary_sequence, angle_lst, circuit, prob>>

ConstructionRaises ==
    /\ (pc \in Constructors /\ cardinality <= 2) =>
           pc' = "raised" /\ err' = "card" /\ NothingProduced
    /\ (pc \in Constructors /\ cardinality = 3) =>
           ~(pc' = "raised" /\ err' = "card")
    /\ (/\ pc \in {"gr_gate_new", "generate_circuit"}
        /\ cardinality > 2
        /\ num_qubits < CeilLog2(cardinality)) =>
           pc' = "raised" /\ err' = "too_few_qubits" /\ NothingProduced

RunFlips(ops, reg) ==
    LET F[m \in 0..Len(ops)] ==
            IF m = 0 THEN reg ELSE ApplyFlip(ops[m], F[m - 1])
    IN  F[Len(ops)]

CyclesDisjoint ==
    \A a, b \in 1..Len(cycles) :
        a # b => Range(cycles[a]) \cap Range(cycles[b]) = {}

FragmentsCommute ==
    \A y \in 0..(2^num_qubits - 1) :
        RunFlips(CycleFragments(num_qubits, cycles, Len(cycles)),
                 Register(num_qubits, y, 0))
        = RunFlips(CycleFragments(num_qubits, Reverse(cycles), Len(cycles)),
                   Register(num_qubits, y, 0))

C13_CyclesDisjointAndCommute ==
    CyclesReturned => CyclesDisjoint /\ FragmentsCommute

\* C14 as stated (SpecCyc): every cycle permutation_cycles returns is a
\* sequence of distinct integers, each an index in [0, d).
C14_CycleElementsAreIndices ==
    CyclesReturned =>
        \A c \in 1..Len(cycles) :
            /\ Distinct(cycles[c])
            /\ \A k \in 1..Len(cycles[c]) :
                  0 <= cycles[c][k] /\ cycles[c][k] < Len(target_subset)

\* C14 as amended (SpecCyc): every cycle permutation_cycles returns is a
\* sequence of at least two distinct integers; every element but the last is
\* an index in [0, d) and is followed by its target value; the last element
\* is a target value >= d, where the walk left the index range.
C14_CycleEndsOutsideIndexRange ==
    CyclesReturned =>
        \A c \in 1..Len(cycles) :
            LET cyc == cycles[c]
                d == Len(target_subset)
            IN  /\ Len(cyc) >= 2
                /\ Distinct(cyc)
                /\ \A k \in 1..(Len(cyc) - 1) :
                      /\ 0 <= cyc[k] /\ cyc[k] < d
                      /\ cyc[k + 1] = target_subset[cyc[k] + 1]
                /\ cyc[Len(cyc)] >= d

\* permutation_cycles has returned two cycles, one of them a walk through
\* two indices that ends on the value 3
C14_Witness ==
    /\ CyclesReturned
    /\ Len(cycles) = 2
    /\ \E c \in 1..2 : Len(cycles[c]) = 3 /\ cycles[c][3] = 3

\* C15 (SpecGate): a basis state (data = y, ancilla = 0) with y not in the
\* cycle is unchanged after every single operation of the fragment, and the
\* controls of the operation about to be applied do not hold on it.
C15_OutsideCycleNeverFires ==
    pc \in {"simulate", "done"} =>
        \A y \in 0..(2^num_qubits - 1) :
            y \notin Range(cycle) =>
                /\ basis[y + 1] = Register(num_qubits, y, 0)
                /\ opi < Len(circuit) => ~ControlsHold(circuit[opi + 1], basis[y + 1])

\* the fragment of a cycle of two elements on two qubits has been applied in
\* full: the first element of the cycle has moved, and a data value outside
\* the cycle is tracked
C15_Witness ==
    /\ pc = "done"
    /\ num_qubits = 2 /\ Len(cycle) = 2 /\ opi = 5
    /\ basis[cycle[1] + 1] # Register(num_qubits, cycle[1], 0)
    /\ \E y \in 0..3 : y \notin Range(cycle)

\* the qubit at position p of generate_circuit's reversed list: x_{n-1-p}
PositionQubit(p) == num_qubits - 1 - p

\* C16 (SpecGR): for card > 2 and num_qubits >= ceil(log2(card)),
\* generate_circuit does not raise and emits exactly card - 1 rotations: an
\* unconditional one on position 0 of the reversed qubit list with angle
\* index 0, then for each step c = 3..card one with angle index c - 2,
\* controls on positions [0, l) and target on position l, l the group of
\* control_tag(c); every qubit used is one of the num_qubits data qubits.
C16_RotationsOfGenerateCircuit ==
    /\ (cardinality > 2 /\ num_qubits >= CeilLog2(cardinality)) => pc # "raised"
    /\ pc \in {"rotate", "done"} =>
        /\ Len(circuit) = cardinality - 1
        /\ circuit[1].gate = "Ry"
        /\ circuit[1].controls = <<>>
        /\ circuit[1].targets = <<PositionQubit(0)>>
        /\ circuit[1].angle = angle_lst[1]
        /\ \A c \in 3..cardinality :
              LET op == circuit[c - 1]
                  l == ControlTag(c).l
              IN  /\ op.gate = "CRy"
                  /\ op.controls = [p \in 1..l |-> PositionQubit(p - 1)]
                  /\ op.targets = <<PositionQubit(l)>>
                  /\ op.angle = angle_lst[(c - 2) + 1]
                  /\ l < num_qubits
        /\ \A k \in 1..Len(circuit) :
              Range(circuit[k].controls) \cup Range(circuit[k].targets)
                  \subseteq 0..(num_qubits - 1)

\* the circuit for card = 6 on three qubits has been generated: its last
\* rotation is controlled on x2, x1 and turns x0
C16_Witness ==
    /\ pc = "rotate" /\ opi = 0
    /\ cardinality = 6 /\ num_qubits = 3
    /\ Len(circuit) = 5
    /\ circuit[5].controls = <<2, 1>> /\ circuit[5].targets = <<0>>

\* C17 (SpecGR): for every step c = 3..card, control_tag(c) returns the
\* group l = ceil(log2(c)) - 1, which is floor(log2(c - 1)): 2^l <= c - 1 <
\* 2^(l+1); the position R = (c - 1) - 2^l with 0 <= R < 2^l; bin_sig, the
\* l-bit rendering of R; and ctrl_sig, l entries with the same bits in the
\* same order, which are the control values of the rotation of step c.
C17_ControlTagGroupAndPosition ==
    pc \in {"rotate", "done"} =>
        \A c \in 3..cardinality :
            LET t == ControlTag(c) IN
            /\ t.l = CeilLog2(c) - 1
            /\ 2^(t.l) <= c - 1 /\ c - 1 < 2^(t.l + 1)
            /\ t.R = (c - 1) - 2^(t.l)
            /\ 0 <= t.R /\ t.R < 2^(t.l)
            /\ Len(t.bin_sig) = t.l
            /\ \A k \in 1..Len(t.bin_sig) : t.bin_sig[k] \in {0, 1}
            /\ FromBits(t.bin_sig) = t.R
            /\ t.ctrl_sig = t.bin_sig
            /\ circuit[c - 1].control_values = t.ctrl_sig

\* the circuit for card = 8 has been generated: step 8 is the last rotation
\* of group 2, position 3, controlled on the values 1, 1
C17_Witness ==
    /\ pc = "rotate"
    /\ cardinality = 8 /\ num_qubits = 3
    /\ ControlTag(8).l = 2 /\ ControlTag(8).R = 3
    /\ circuit[7].control_values = <<1, 1>>

\* C18 (SpecGR): for every step c = 3..card, the bin_sig of control_tag(c) is
\* the element at index c - 2 of [''] + generate_prefix_binary_sequence(): the
\* control values of the rotation of step c are the prefix whose partition
\* counts gave the angle angle_lst[c - 2] the rotation uses.
C18_ControlPatternIsAnglePrefix ==
    pc \in {"rotate", "done"} =>
        \A c \in 3..cardinality :
            LET prefix == binary_sequence[(c - 2) + 1]
                counts == PartitionCounter(cardinality, prefix)
            IN  /\ ControlTag(c).bin_sig = prefix
                /\ circuit[c - 1].control_values = prefix
                /\ circuit[c - 1].angle = angle_lst[(c - 2) + 1]
                /\ angle_lst[(c - 2) + 1] = <<counts.N0, counts.N1>>

\* the circuit for card = 6 has been generated: the rotation of step 6 is
\* controlled on the prefix 01, the fourth prefix after the empty one
C18_Witness ==
    /\ pc = "rotate"
    /\ cardinality = 6 /\ num_qubits = 3
    /\ binary_sequence[5] = <<0, 1>>
    /\ circuit[5].control_values = <<0, 1>>

\* C19 (SpecGR): for card > 2, every prefix of [''] + the prefix sequence is
\* strictly shorter than ceil(log2(card)), and its partition counts are
\* N0 >= 1 and N1 >= 0, so the ratio N0/(N0+N1) is in (0, 1]; get_angles
\* never fails on N0 + N1 = 0 and never indexes past the end of a bit string.
C19_PartitionCountsWellDefined ==
    /\ err \notin {"IndexError", "degenerate_partition"}
    /\ AnglesReturned =>
        /\ Len(binary_sequence) = cardinality - 1
        /\ \A k \in 1..Len(binary_sequence) :
              LET counts == PartitionCounter(cardinality, binary_sequence[k]) IN
              /\ Len(binary_sequence[k]) < CeilLog2(cardinality)
              /\ counts.err = ""
              /\ counts.N0 >= 1 /\ counts.N1 >= 0
              /\ angle_lst[k] = <<counts.N0, counts.N1>>
              /\ 0 < counts.N0 /\ counts.N0 <= counts.N0 + counts.N1

\* get_angles has returned for card = 9: the last prefix, 000, is one bit
\* shorter than the four bits of the indices and splits the indices 0 and 8
C19_Witness ==
    /\ pc = "circuit_new"
    /\ cardinality = 9
    /\ binary_sequence[8] = <<0, 0, 0>>
    /\ angle_lst[8] = <<1, 1>>

====
